---- MODULE Spec2Model ----
(***************************************************************************)
(* FactChecker: the claim verification pipeline.                           *)
(*                                                                         *)
(*   checker.check_statement                                               *)
(*     -> break_statement.decompose_statement_to_questions (OpenAI or the  *)
(*        local Mistral model, with fallback to OpenAI)                    *)
(*     -> search_results.yes_no per question (Tavily search, then OpenAI   *)
(*        or the local Mistral model), stopping at the first "No".         *)
(*                                                                         *)
(* One Python process, one thread of control.  Texts are sequences of      *)
(* one-character strings.  A step is taken at each call of a collaborator  *)
(* (filesystem probe, from_pretrained, HTTP request, generate).            *)
(***************************************************************************)
EXTENDS Integers, Sequences, FiniteSets, TLC

\* ------------------------------------------------------------------ bounds

\* check_statement calls made in one process lifetime
MaxCalls == 2
\* lines of backend text offered to the decomposer's parser in the pipeline
MaxLines == 3
\* the counter of loaded models stops counting here
MaxCounted == 2
\* rows of the CSV handed to the batch runner
MaxRows == 2
\* characters of a backend answer handed to the judge's normalization
MaxAnswerLen == 3
\* characters of a statement handed to detect_subjectivity on its own
MaxStatementLen == 4
\* characters of a backend text handed to the decomposer's parser on its own
MaxTextLen == 4

\* ------------------------------------------------------- Python str helpers

\* str.strip() with no argument strips whitespace
Whitespace == {" ", "\n", "\t"}

RECURSIVE lstrip(_, _)
lstrip(s, chars) ==
    IF s = <<>> THEN <<>>
    ELSE IF Head(s) \in chars THEN lstrip(Tail(s), chars) ELSE s

RECURSIVE rstrip(_, _)
rstrip(s, chars) ==
    IF s = <<>> THEN <<>>
    ELSE IF s[Len(s)] \in chars THEN rstrip(SubSeq(s, 1, Len(s) - 1), chars) ELSE s

strip(s, chars) == rstrip(lstrip(s, chars), chars)

ascii_uppercase == <<"A", "B", "C", "D", "E", "F", "G", "H", "I", "J", "K", "L", "M", "N", "O", "P", "Q", "R", "S", "T", "U", "V", "W", "X", "Y", "Z">>
ascii_lowercase == <<"a", "b", "c", "d", "e", "f", "g", "h", "i", "j", "k", "l", "m", "n", "o", "p", "q", "r", "s", "t", "u", "v", "w", "x", "y", "z">>

\* str.lower() on one character
lower_char(c) ==
    IF \E i \in 1..Len(ascii_uppercase) : ascii_uppercase[i] = c
    THEN ascii_lowercase[CHOOSE i \in 1..Len(ascii_uppercase) : ascii_uppercase[i] = c]
    ELSE c

lower(s) == [i \in 1..Len(s) |-> lower_char(s[i])]

startswith(s, prefix) ==
    /\ Len(s) >= Len(prefix)
    /\ SubSeq(s, 1, Len(prefix)) = prefix

\* str.split(sep) for a one-character separator: "" splits into [""]
RECURSIVE split(_, _)
split(s, sep) ==
    IF \A i \in 1..Len(s) : s[i] # sep THEN <<s>>
    ELSE LET k == CHOOSE i \in 1..Len(s) :
                     /\ s[i] = sep
                     /\ \A j \in 1..(i - 1) : s[j] # sep
         IN  <<SubSeq(s, 1, k - 1)>> \o split(SubSeq(s, k + 1, Len(s)), sep)

RECURSIVE join(_, _)
join(lines, sep) ==
    IF lines = <<>> THEN <<>>
    ELSE IF Len(lines) = 1 THEN lines[1]
    ELSE lines[1] \o <<sep>> \o join(Tail(lines), sep)

\* [q for q in lines if q.strip()]
RECURSIVE nonblank(_)
nonblank(lines) ==
    IF lines = <<>> THEN <<>>
    ELSE (IF strip(Head(lines), Whitespace) # <<>> THEN <<Head(lines)>> ELSE <<>>)
         \o nonblank(Tail(lines))

\* ------------------------------------------------------ pure parts of the code

\* questions = [q.strip("- ").strip() for q in result.split("\n") if q.strip()]
parse_questions(text) ==
    LET kept == nonblank(split(text, "\n"))
    IN  [i \in 1..Len(kept) |-> strip(strip(kept[i], {"-", " "}), Whitespace)]

\* result = generated_text[len(prompt):]
after_prompt(generated_text, prompt_text) ==
    SubSeq(generated_text, Len(prompt_text) + 1, Len(generated_text))

\* a mutant of normalize_answer: the answer is not lower-cased
normalize_answer_no_lower(content) ==
    IF startswith(strip(content, Whitespace), <<"y">>) THEN "Yes" ELSE "No"

\* answer = content.strip(); "Yes" if answer.lower().startswith("y") else "No"
normalize_answer(content) ==
    IF startswith(lower(strip(content, Whitespace)), <<"y">>) THEN "Yes" ELSE "No"

\* ----------------------------------------------------- subjective_claim.py

\* get_subjective_patterns(): the alternatives of the ten patterns, each
\* pattern of the form \b(alt|alt|...)\b
subjective_patterns ==
    {<<"i", " ", "t", "h", "i", "n", "k">>,
     <<"i", " ", "b", "e", "l", "i", "e", "v", "e">>,
     <<"i", " ", "f", "e", "e", "l">>,
     <<"i", " ", "g", "u", "e", "s", "s">>,
     <<"i", " ", "s", "u", "p", "p", "o", "s", "e">>,
     <<"i", " ", "a", "s", "s", "u", "m", "e">>} \cup
    {<<"i", "n", " ", "m", "y", " ", "o", "p", "i", "n", "i", "o", "n">>,
     <<"i", "n", " ", "m", "y", " ", "v", "i", "e", "w">>,
     <<"p", "e", "r", "s", "o", "n", "a", "l", "l", "y">>,
     <<"t", "o", " ", "m", "e">>} \cup
    {<<"i", "t", " ", "s", "e", "e", "m", "s">>,
     <<"i", "t", " ", "a", "p", "p", "e", "a", "r", "s">>,
     <<"i", "t", " ", "l", "o", "o", "k", "s", " ", "l", "i", "k", "e">>,
     <<"i", "t", " ", "s", "o", "u", "n", "d", "s", " ", "l", "i", "k", "e">>} \cup
    {<<"p", "r", "o", "b", "a", "b", "l", "y">>,
     <<"m", "a", "y", "b", "e">>,
     <<"p", "e", "r", "h", "a", "p", "s">>,
     <<"p", "o", "s", "s", "i", "b", "l", "y">>,
     <<"l", "i", "k", "e", "l", "y">>,
     <<"u", "n", "l", "i", "k", "e", "l", "y">>} \cup
    {<<"c", "l", "e", "a", "r", "l", "y">>,
     <<"o", "b", "v", "i", "o", "u", "s", "l", "y">>,
     <<"u", "n", "d", "o", "u", "b", "t", "e", "d", "l", "y">>,
     <<"c", "e", "r", "t", "a", "i", "n", "l", "y">>,
     <<"d", "e", "f", "i", "n", "i", "t", "e", "l", "y">>} \cup
    {<<"s", "u", "r", "p", "r", "i", "s", "i", "n", "g", "l", "y">>,
     <<"u", "n", "f", "o", "r", "t", "u", "n", "a", "t", "e", "l", "y">>,
     <<"f", "o", "r", "t", "u", "n", "a", "t", "e", "l", "y">>,
     <<"s", "a", "d", "l", "y">>,
     <<"t", "h", "a", "n", "k", "f", "u", "l", "l", "y">>} \cup
    {<<"a", "m", "a", "z", "i", "n", "g">>,
     <<"i", "n", "c", "r", "e", "d", "i", "b", "l", "e">>,
     <<"t", "e", "r", "r", "i", "b", "l", "e">>,
     <<"a", "w", "f", "u", "l">>,
     <<"w", "o", "n", "d", "e", "r", "f", "u", "l">>,
     <<"f", "a", "n", "t", "a", "s", "t", "i", "c">>} \cup
    {<<"v", "e", "r", "y">>,
     <<"e", "x", "t", "r", "e", "m", "e", "l", "y">>,
     <<"i", "n", "c", "r", "e", "d", "i", "b", "l", "y">>,
     <<"a", "b", "s", "o", "l", "u", "t", "e", "l", "y">>,
     <<"c", "o", "m", "p", "l", "e", "t", "e", "l", "y">>,
     <<"t", "o", "t", "a", "l", "l", "y">>} \cup
    {<<"a", "l", "w", "a", "y", "s">>,
     <<"n", "e", "v", "e", "r">>,
     <<"a", "l", "l">>,
     <<"e", "v", "e", "r", "y">>,
     <<"n", "o", "n", "e">>,
     <<"n", "o", "t", "h", "i", "n", "g">>,
     <<"e", "v", "e", "r", "y", "t", "h", "i", "n", "g">>} \cup
    {<<"s", "h", "o", "u", "l", "d">>,
     <<"m", "u", "s", "t">>,
     <<"o", "u", "g", "h", "t", " ", "t", "o">>,
     <<"n", "e", "e", "d", " ", "t", "o">>,
     <<"h", "a", "v", "e", " ", "t", "o">>}

\* get_opinion_words()
opinion_words ==
    {<<"t", "h", "i", "n", "k">>,
     <<"b", "e", "l", "i", "e", "v", "e">>,
     <<"f", "e", "e", "l">>,
     <<"g", "u", "e", "s", "s">>,
     <<"s", "u", "p", "p", "o", "s", "e">>,
     <<"a", "s", "s", "u", "m", "e">>,
     <<"o", "p", "i", "n", "i", "o", "n">>,
     <<"v", "i", "e", "w">>,
     <<"p", "e", "r", "s", "o", "n", "a", "l", "l", "y">>,
     <<"p", "r", "o", "b", "a", "b", "l", "y">>,
     <<"m", "a", "y", "b", "e">>,
     <<"p", "e", "r", "h", "a", "p", "s">>}

\* \w of the regular expressions
word_chars ==
    {ascii_lowercase[i] : i \in 1..Len(ascii_lowercase)} \cup
    {ascii_uppercase[i] : i \in 1..Len(ascii_uppercase)} \cup
    {"0", "1", "2", "3", "4", "5", "6", "7", "8", "9", "_"}

\* \b between positions i and i + 1 of s (i = 0: the start, i = Len(s): the end)
word_boundary(s, i) ==
    LET before == i >= 1 /\ s[i] \in word_chars
        after  == i < Len(s) /\ s[i + 1] \in word_chars
    IN  before # after

\* re.search(r'\b(alt)\b', s, flags=re.IGNORECASE) for one alternative
search_alternative(alt, s) ==
    \E i \in 1..(Len(s) - Len(alt) + 1) :
        /\ lower(SubSeq(s, i, i + Len(alt) - 1)) = alt
        /\ word_boundary(s, i - 1)
        /\ word_boundary(s, i + Len(alt) - 1)

\* str.split() with no argument: the maximal runs of non-whitespace
RECURSIVE split_whitespace(_)
split_whitespace(s) ==
    LET t == lstrip(s, Whitespace)
    IN  IF t = <<>> THEN <<>>
        ELSE LET n == IF \A i \in 1..Len(t) : t[i] \notin Whitespace
                      THEN Len(t)
                      ELSE (CHOOSE i \in 1..Len(t) :
                               /\ t[i] \in Whitespace
                               /\ \A j \in 1..(i - 1) : t[j] \notin Whitespace) - 1
             IN  <<SubSeq(t, 1, n)>> \o split_whitespace(SubSeq(t, n + 1, Len(t)))

\* a mutant of detect_subjectivity: the opinion words are not looked for
detect_subjectivity_patterns_only(statement) ==
    IF statement = <<>> THEN FALSE
    ELSE \E alt \in subjective_patterns : search_alternative(alt, statement)

\* subjective_claim.detect_subjectivity
detect_subjectivity(statement) ==
    IF statement = <<>> THEN FALSE
    ELSE \/ \E alt \in subjective_patterns : search_alternative(alt, statement)
         \/ LET words == split_whitespace(lower(statement))
            IN  \E i \in 1..Len(words) : words[i] \in opinion_words

\* ------------------------------------------------------- main.py, the helpers

\* a cell that csv.DictReader fills with None (a short row), and the None that
\* extract_statement_from_row returns
None == <<"None">>

\* a mutant of clean_text: the text is not stripped
clean_text_no_strip(text) == IF text = None \/ text = <<>> THEN <<>> ELSE text

\* main.clean_text
clean_text(text) == IF text = None \/ text = <<>> THEN <<>> ELSE strip(text, Whitespace)

\* main.is_empty_statement
is_empty_statement(statement) == statement = <<>> \/ strip(statement, Whitespace) = <<>>

\* main.validate_statement_column, for rows of a DictReader: every row has the
\* header's columns
validate_statement_column(has_column) == has_column

\* main.extract_statement_from_row
extract_statement_from_row(cell, has_column) ==
    IF ~validate_statement_column(has_column) THEN None
    ELSE IF is_empty_statement(clean_text(cell)) THEN None
    ELSE clean_text(cell)

\* `not statement` for an Optional[str]: None and "" are false
falsy(statement) == statement = None \/ statement = <<>>

\* the statement cells of the CSV rows handed to the batch runner
S_i_think == <<"I", " ", "t", "h", "i", "n", "k", " ", "s", "o">>
S_they_think == <<"T", "h", "e", "y", " ", "t", "h", "i", "n", "k", " ", "s", "o">>
S_water == <<"W", "a", "t", "e", "r", " ", "b", "o", "i", "l", "s">>
S_padded == <<" ", "I", "c", "e", " ", "m", "e", "l", "t", "s", " ">>
S_blank == <<" ", " ">>
Cells == {S_i_think, S_they_think, S_water, S_padded, S_blank, <<>>, None}

\* the statements handed to check_statement directly
Statements == {S_water, S_i_think}

\* the statement cells of the rows handed to process_csv_row
RowCells == {S_padded, S_blank, None}

\* a mutant of csv_loop_body: the subjectivity test is left out
csv_loop_body_no_gate(results_so_far, cell, has_col) ==
    LET st == extract_statement_from_row(cell, has_col)
    IN  IF falsy(st) THEN results_so_far
        ELSE Append(results_so_far, [statement |-> st, verdict |-> "YES"])

\* a mutant of csv_loop_body: the `if not statement: continue` is missing
csv_loop_body_no_skip(results_so_far, cell, has_col) ==
    LET st == extract_statement_from_row(cell, has_col)
    IN  IF detect_subjectivity(st)
        THEN Append(results_so_far, [statement |-> st, verdict |-> "SKIPPED_SUBJECTIVE"])
        ELSE Append(results_so_far, [statement |-> st, verdict |-> "YES"])

\* the loop body of main.process_statements_from_csv
csv_loop_body(results_so_far, cell, has_col) ==
    LET st == extract_statement_from_row(cell, has_col)
    IN  IF falsy(st) THEN results_so_far
        ELSE IF detect_subjectivity(st)
        THEN Append(results_so_far, [statement |-> st, verdict |-> "SKIPPED_SUBJECTIVE"])
        ELSE Append(results_so_far, [statement |-> st, verdict |-> "YES"])

\* for row in csv_rows: of main.process_statements_from_csv
RECURSIVE csv_for_rows(_, _, _)
csv_for_rows(results_so_far, cells, has_col) ==
    IF cells = <<>> THEN results_so_far
    ELSE csv_for_rows(csv_loop_body(results_so_far, Head(cells), has_col),
                      Tail(cells), has_col)

\* a mutant of content_loop_body: the `continue` after the skipped verdict is
\* missing
content_loop_body_no_continue(results_so_far, cell, has_col) ==
    LET st == extract_statement_from_row(cell, has_col)
        skipped == IF detect_subjectivity(st)
                   THEN Append(results_so_far,
                               [statement |-> st, verdict |-> "SKIPPED_SUBJECTIVE"])
                   ELSE results_so_far
    IN  IF falsy(st) THEN results_so_far
        ELSE Append(skipped, [statement |-> st, verdict |-> "YES"])

\* the loop body of main.process_statements_from_csv_content
content_loop_body(results_so_far, cell, has_col) ==
    LET st == extract_statement_from_row(cell, has_col)
    IN  IF falsy(st) THEN results_so_far
        ELSE IF detect_subjectivity(st)
        THEN Append(results_so_far, [statement |-> st, verdict |-> "SKIPPED_SUBJECTIVE"])
        ELSE Append(results_so_far, [statement |-> st, verdict |-> "YES"])

\* for row in reader: of main.process_statements_from_csv_content
RECURSIVE content_for_rows(_, _, _)
content_for_rows(results_so_far, cells, has_col) ==
    IF cells = <<>> THEN results_so_far
    ELSE content_for_rows(content_loop_body(results_so_far, Head(cells), has_col),
                          Tail(cells), has_col)

\* the statements that the loop of a batch runner hands to detect_subjectivity:
\* the rows that pass `if not statement: continue`
RECURSIVE gate_for_rows(_, _, _)
gate_for_rows(gated_so_far, cells, has_col) ==
    IF cells = <<>> THEN gated_so_far
    ELSE LET st == extract_statement_from_row(Head(cells), has_col)
         IN  gate_for_rows(IF falsy(st) THEN gated_so_far ELSE Append(gated_so_far, st),
                           Tail(cells), has_col)

\* ------------------------------------------------------------ pipeline inputs

Modules == {"break_statement", "search_results"}

\* backend lines the pipeline's decomposer is offered: a question, a bulleted
\* question, a blank line
BackendLines == {<<"a">>, <<"-", " ", "a">>, <<>>}

RECURSIVE SeqsUpTo(_, _)
SeqsUpTo(S, n) ==
    IF n = 0 THEN {<<>>}
    ELSE LET shorter == SeqsUpTo(S, n - 1)
         IN  shorter \cup {Append(s, x) : s \in {t \in shorter : Len(t) = n - 1}, x \in S}

DecomposerTexts == {join(ls, "\n") : ls \in SeqsUpTo(BackendLines, MaxLines)}

\* backend answers the pipeline's judge is offered
JudgeAnswers == {<<"Y", "e", "s">>, <<" ", "y">>, <<"N", "o">>, <<>>}

\* the two prompts of the local backend: the tokenizer's chat template over the
\* system and user turns, and the fallback f"{system_prompt}\n\n{user_prompt}"
system_prompt == <<"s">>
user_prompt == <<"u">>
chat_prompt == <<"[">> \o system_prompt \o <<"]", "[">> \o user_prompt \o <<"]">>
concat_prompt == system_prompt \o <<"\n", "\n">> \o user_prompt

\* ------------------------------------------------------------------- state

VARIABLES
    pc,                 \* where the thread of control is
    phase,              \* "decompose" or "judge": which callee of check_statement runs
    backend,            \* "openai" or "mistral": which function serves the phase
    use_local,          \* check_statement's argument
    fs,                 \* models/Mistral-7B-Instruct-v0.3 on disk
    collaborators,      \* "real", or the deterministic stubs in place of the
                        \* loaders, the search and the two backends
    mistral_model,      \* _mistral_model of each module
    mistral_tokenizer,  \* _mistral_tokenizer of each module
    model,              \* local `model` of the *_mistral function
    tokenizer,          \* local `tokenizer` of the *_mistral function
    prompt,             \* prompt / formatted_prompt of the *_mistral function
    questions,          \* check_statement's `questions`
    num_questions,      \* check_statement's `num_questions`
    qi,                 \* position of the for loop in `questions`
    data,               \* `data` of yes_no_*: the search result
    attempts,           \* chat.completions.create calls made by the running callee
    searched,           \* tavily_search calls of this check_statement call
    judged,             \* yes_no results of this check_statement call
    served,             \* the last generation of this check_statement call
    result,             \* check_statement's return value: "True", "False"
    error,              \* the exception that left check_statement
    model_loads,        \* models that AutoModelForCausalLM.from_pretrained has loaded
    calls,              \* check_statement calls of the process
    caller,             \* who called check_statement
    statement,          \* check_statement's argument `statement`
    row_result,         \* what process_csv_row returned
    printed,            \* the exception process_csv_row printed for its row
    runner,             \* the batch runner that ran
    has_column,         \* whether the CSV header has the statement column
    rows,               \* the statement cells of the CSV rows
    results,            \* the batch runner's `results`
    gated,              \* the statements the batch runner handed to detect_subjectivity
    response,           \* the key of the upload endpoint's response: "error", "results"
    fn,                 \* the function applied on its own, "none" before
    arg,                \* its argument
    out                 \* its return value

env_vars == <<fs, collaborators>>
call_vars == <<phase, backend, use_local, model, tokenizer, prompt, questions,
               num_questions, qi, data, attempts, searched, judged, served,
               result, error>>
cache_vars == <<mistral_model, mistral_tokenizer, model_loads>>
row_vars == <<caller, statement, row_result, printed>>
batch_vars == <<runner, has_column, rows, results, gated, response>>
pure_vars == <<fn, arg, out>>
vars == <<pc, env_vars, calls, call_vars, cache_vars, row_vars, batch_vars, pure_vars>>

\* one more, up to MaxCounted
Counted(n) == IF n < MaxCounted THEN n + 1 ELSE n

\* the module whose load_mistral_model the running callee uses
LoaderModule == IF phase = "decompose" THEN "break_statement" ELSE "search_results"

\* what a generation leaves in `served`: the callee, the question, the backend
\* that answered, the search result its prompt embedded, whether the callee
\* held a loaded local model, and the prompt the local model was given
Served(by) ==
    [phase |-> phase, q |-> qi, by |-> by, data |-> data,
     loaded |-> (model # "None" /\ tokenizer # "None"), prompt |-> prompt]

NotServed ==
    [phase |-> "none", q |-> 0, by |-> "none", data |-> "None", loaded |-> FALSE,
     prompt |-> <<>>]

\* the process has started and nothing has run
Fresh ==
    /\ pc = "idle"
    /\ phase = "none"
    /\ backend = "none"
    /\ use_local = FALSE
    /\ fs \in {"nodir", "incomplete", "ok"}
    /\ mistral_model = [m \in Modules |-> "None"]
    /\ mistral_tokenizer = [m \in Modules |-> "None"]
    /\ model = "None"
    /\ tokenizer = "None"
    /\ prompt = <<>>
    /\ questions = <<>>
    /\ num_questions = 0
    /\ qi = 0
    /\ data = "None"
    /\ attempts = 0
    /\ searched = <<>>
    /\ judged = <<>>
    /\ served = NotServed
    /\ result = "none"
    /\ error = "none"
    /\ model_loads = 0
    /\ calls = 0
    /\ caller = "none"
    /\ statement = None
    /\ row_result = None
    /\ printed = "none"
    /\ runner = "none"
    /\ has_column = FALSE
    /\ rows = <<>>
    /\ results = <<>>
    /\ gated = <<>>
    /\ response = "none"

Init ==
    /\ Fresh
    /\ collaborators = "real"
    /\ fn = "none"
    /\ arg = <<>>
    /\ out = "none"

\* ------------------------------------------------- checker.check_statement

\* the state of a check_statement call as it is entered
enter_check_statement(st, ul) ==
    /\ calls' = calls + 1
    /\ statement' = st
    /\ use_local' = ul
    /\ phase' = "decompose"
    /\ backend' = "none"
    /\ model' = "None"
    /\ tokenizer' = "None"
    /\ prompt' = <<>>
    /\ questions' = <<>>
    /\ num_questions' = 0
    /\ qi' = 0
    /\ data' = "None"
    /\ attempts' = 0
    /\ searched' = <<>>
    /\ judged' = <<>>
    /\ served' = NotServed
    /\ result' = "none"
    /\ error' = "none"
    /\ pc' = "decompose"

\* the thread of control is free to make a call: the process has just started,
\* or the previous call has come back to the top level
AtTopLevel ==
    \/ pc \in {"idle", "row_done"}
    \/ pc \in {"returned", "raised"} /\ caller = "direct"

\* check_statement(statement, use_local) called directly (checker.py's main)
check_statement(st, ul) ==
    /\ AtTopLevel
    /\ runner = "none"
    /\ calls < MaxCalls
    /\ enter_check_statement(st, ul)
    /\ caller' = "direct"
    /\ row_result' = None
    /\ printed' = "none"
    /\ UNCHANGED <<env_vars, cache_vars, batch_vars, pure_vars>>

\* main.process_csv_row up to its call of check_statement(statement): a row
\* without a statement returns None at once
process_csv_row(cell, has_col) ==
    /\ AtTopLevel
    /\ runner = "none"
    /\ calls < MaxCalls
    /\ LET st == extract_statement_from_row(cell, has_col)
       IN  IF falsy(st)
           THEN /\ row_result' = None
                /\ caller' = "process_csv_row"
                /\ statement' = None
                /\ pc' = "row_done"
                /\ UNCHANGED <<calls, call_vars>>
           ELSE /\ enter_check_statement(st, FALSE)
                /\ caller' = "process_csv_row"
                /\ row_result' = None
    /\ printed' = "none"
    /\ UNCHANGED <<env_vars, cache_vars, batch_vars, pure_vars>>

\* a mutant of process_csv_row_return: the handler reports the row as not
\* factual
process_csv_row_return_false ==
    /\ pc \in {"returned", "raised"}
    /\ caller = "process_csv_row"
    /\ row_result' = IF pc = "returned"
                     THEN <<[original_statement |-> statement, is_factual |-> result]>>
                     ELSE <<[original_statement |-> statement, is_factual |-> "False"]>>
    /\ printed' = "none"
    /\ pc' = "row_done"
    /\ UNCHANGED <<env_vars, calls, call_vars, cache_vars, caller, statement, batch_vars,
                   pure_vars>>

\* main.process_csv_row after check_statement: the result row, or None when
\* check_statement raised, after print(f"Error processing row {row_number}: {e}")
process_csv_row_return ==
    /\ pc \in {"returned", "raised"}
    /\ caller = "process_csv_row"
    /\ row_result' = IF pc = "returned"
                     THEN <<[original_statement |-> statement, is_factual |-> result]>>
                     ELSE None
    /\ printed' = IF pc = "returned" THEN "none" ELSE error
    /\ pc' = "row_done"
    /\ UNCHANGED <<env_vars, calls, call_vars, cache_vars, caller, statement, batch_vars,
                   pure_vars>>

\* main.process_statements_from_csv over the rows read from the file
process_statements_from_csv(cells, has_col) ==
    /\ pc = "idle"
    /\ runner' = "csv"
    /\ rows' = cells
    /\ has_column' = has_col
    /\ results' = IF cells = <<>> THEN <<>>
                  ELSE csv_for_rows(<<>>, cells, has_col)
    /\ gated' = IF cells = <<>> THEN <<>>
                ELSE gate_for_rows(<<>>, cells, has_col)
    /\ response' = "none"
    /\ pc' = "batch_done"
    /\ UNCHANGED <<env_vars, calls, call_vars, cache_vars, row_vars, pure_vars>>

\* main.process_statements_from_csv_content over the rows of the content
process_statements_from_csv_content(cells, has_col) ==
    /\ pc = "idle"
    /\ runner' = "content"
    /\ rows' = cells
    /\ has_column' = has_col
    /\ results' = IF ~has_col THEN <<>>
                  ELSE content_for_rows(<<>>, cells, has_col)
    /\ gated' = IF ~has_col THEN <<>>
                ELSE gate_for_rows(<<>>, cells, has_col)
    /\ response' = "none"
    /\ pc' = "batch_done"
    /\ UNCHANGED <<env_vars, calls, call_vars, cache_vars, row_vars, pure_vars>>

\* main.factcheck_upload over the rows of the uploaded file: the error
\* response for a header without the statement column, or the results of
\* process_statements_from_csv_content
factcheck_upload(cells, has_col) ==
    /\ pc = "idle"
    /\ runner' = "upload"
    /\ rows' = cells
    /\ has_column' = has_col
    /\ IF ~has_col
       THEN /\ response' = "error"
            /\ results' = <<>>
            /\ gated' = <<>>
       ELSE /\ response' = "results"
            /\ results' = content_for_rows(<<>>, cells, has_col)
            /\ gated' = gate_for_rows(<<>>, cells, has_col)
    /\ pc' = "batch_done"
    /\ UNCHANGED <<env_vars, calls, call_vars, cache_vars, row_vars, pure_vars>>

\* a mutant of for_question: the loop goes over every other question
for_question_every_other ==
    /\ pc = "loop"
    /\ IF qi < Len(questions)
       THEN /\ qi' = IF qi + 2 <= Len(questions) THEN qi + 2 ELSE qi + 1
            /\ phase' = "judge"
            /\ pc' = "yes_no"
            /\ UNCHANGED result
       ELSE /\ result' = "True"
            /\ pc' = "returned"
            /\ UNCHANGED <<qi, phase>>
    /\ UNCHANGED <<backend, use_local, model, tokenizer, prompt, questions,
                   num_questions, data, attempts, searched, judged, served, error>>
    /\ UNCHANGED <<env_vars, calls, cache_vars, row_vars, batch_vars, pure_vars>>

\* for question in questions: the next question is handed to yes_no, or the
\* loop is over and check_statement returns True
for_question ==
    /\ pc = "loop"
    /\ IF qi < Len(questions)
       THEN /\ qi' = qi + 1
            /\ phase' = "judge"
            /\ pc' = "yes_no"
            /\ UNCHANGED result
       ELSE /\ result' = "True"
            /\ pc' = "returned"
            /\ UNCHANGED <<qi, phase>>
    /\ UNCHANGED <<backend, use_local, model, tokenizer, prompt, questions,
                   num_questions, data, attempts, searched, judged, served, error>>
    /\ UNCHANGED <<env_vars, calls, cache_vars, row_vars, batch_vars, pure_vars>>

\* a mutant of if_no_return_false: every question is judged before the
\* judgments are combined
if_no_keep_going ==
    /\ pc = "judged"
    /\ IF qi < Len(questions)
       THEN /\ pc' = "loop"
            /\ UNCHANGED result
       ELSE /\ result' = IF \A k \in 1..Len(judged) : judged[k].j # "No"
                         THEN "True" ELSE "False"
            /\ pc' = "returned"
    /\ UNCHANGED <<phase, backend, use_local, model, tokenizer, prompt, questions,
                   num_questions, qi, data, attempts, searched, judged, served, error>>
    /\ UNCHANGED <<env_vars, calls, cache_vars, row_vars, batch_vars, pure_vars>>

\* a mutant of if_no_return_false: the first judgment decides
\* (return yes_no(question) != "No" inside the loop)
if_first_return ==
    /\ pc = "judged"
    /\ result' = IF judged[Len(judged)].j = "No" THEN "False" ELSE "True"
    /\ pc' = "returned"
    /\ UNCHANGED <<phase, backend, use_local, model, tokenizer, prompt, questions,
                   num_questions, qi, data, attempts, searched, judged, served, error>>
    /\ UNCHANGED <<env_vars, calls, cache_vars, row_vars, batch_vars, pure_vars>>

\* if yes_no(question) == "No": return False
if_no_return_false ==
    /\ pc = "judged"
    /\ IF judged[Len(judged)].j = "No"
       THEN /\ result' = "False"
            /\ pc' = "returned"
       ELSE /\ pc' = "loop"
            /\ UNCHANGED result
    /\ UNCHANGED <<phase, backend, use_local, model, tokenizer, prompt, questions,
                   num_questions, qi, data, attempts, searched, judged, served, error>>
    /\ UNCHANGED <<env_vars, calls, cache_vars, row_vars, batch_vars, pure_vars>>

\* ---------------------------------------- dispatch on use_local (both modules)

\* break_statement.decompose_statement_to_questions
decompose_statement_to_questions ==
    /\ pc = "decompose"
    /\ attempts' = 0
    /\ IF use_local
       THEN /\ backend' = "mistral"
            /\ pc' = "load"
       ELSE /\ backend' = "openai"
            /\ pc' = "openai"
    /\ UNCHANGED <<phase, use_local, model, tokenizer, prompt, questions,
                   num_questions, qi, data, searched, judged, served, result, error>>
    /\ UNCHANGED <<env_vars, calls, cache_vars, row_vars, batch_vars, pure_vars>>

\* search_results.yes_no
yes_no ==
    /\ pc = "yes_no"
    /\ attempts' = 0
    /\ IF use_local
       THEN /\ backend' = "mistral"
            /\ pc' = "load"
       ELSE /\ backend' = "openai"
            /\ pc' = "search"
    /\ UNCHANGED <<phase, use_local, model, tokenizer, prompt, questions,
                   num_questions, qi, data, searched, judged, served, result, error>>
    /\ UNCHANGED <<env_vars, calls, cache_vars, row_vars, batch_vars, pure_vars>>

\* ------------------------------- load_mistral_model (one copy in each module)

\* a mutant of load_mistral_model: a filled cache is not handed out, the
\* caller gets (None, None)
load_mistral_model_cache_lost ==
    /\ pc = "load"
    /\ IF mistral_model[LoaderModule] # "None" /\ mistral_tokenizer[LoaderModule] # "None"
       THEN /\ model' = "None"
            /\ tokenizer' = "None"
            /\ pc' = "loaded"
       ELSE IF fs = "nodir" \/ fs = "incomplete"
       THEN /\ model' = "None"
            /\ tokenizer' = "None"
            /\ pc' = "loaded"
       ELSE /\ pc' = "load_tokenizer"
            /\ UNCHANGED <<model, tokenizer>>
    /\ UNCHANGED <<phase, backend, use_local, prompt, questions, num_questions, qi,
                   data, attempts, searched, judged, served, result, error>>
    /\ UNCHANGED <<env_vars, calls, cache_vars, row_vars, batch_vars, pure_vars>>

\* a mutant of load_mistral_model: the cache test looks at the tokenizer only
load_mistral_model_tokenizer_test ==
    /\ pc = "load"
    /\ IF mistral_tokenizer[LoaderModule] # "None"
       THEN /\ model' = mistral_model[LoaderModule]
            /\ tokenizer' = mistral_tokenizer[LoaderModule]
            /\ pc' = "loaded"
       ELSE IF fs = "nodir" \/ fs = "incomplete"
       THEN /\ model' = "None"
            /\ tokenizer' = "None"
            /\ pc' = "loaded"
       ELSE /\ pc' = "load_tokenizer"
            /\ UNCHANGED <<model, tokenizer>>
    /\ UNCHANGED <<phase, backend, use_local, prompt, questions, num_questions, qi,
                   data, attempts, searched, judged, served, result, error>>
    /\ UNCHANGED <<env_vars, calls, cache_vars, row_vars, batch_vars, pure_vars>>

\* the cache test, then the probes of the model directory and its files
load_mistral_model ==
    /\ pc = "load"
    /\ IF mistral_model[LoaderModule] # "None" /\ mistral_tokenizer[LoaderModule] # "None"
       THEN /\ model' = mistral_model[LoaderModule]
            /\ tokenizer' = mistral_tokenizer[LoaderModule]
            /\ pc' = "loaded"
       ELSE IF fs = "nodir" \/ fs = "incomplete"
       THEN /\ model' = "None"
            /\ tokenizer' = "None"
            /\ pc' = "loaded"
       ELSE /\ pc' = "load_tokenizer"
            /\ UNCHANGED <<model, tokenizer>>
    /\ UNCHANGED <<phase, backend, use_local, prompt, questions, num_questions, qi,
                   data, attempts, searched, judged, served, result, error>>
    /\ UNCHANGED <<env_vars, calls, cache_vars, row_vars, batch_vars, pure_vars>>

\* _mistral_tokenizer = AutoTokenizer.from_pretrained(...), or it raises
load_tokenizer ==
    /\ pc = "load_tokenizer"
    /\ \/ /\ mistral_tokenizer' = [mistral_tokenizer EXCEPT ![LoaderModule] = "tokenizer"]
          /\ pc' = "load_model"
          /\ UNCHANGED <<model, tokenizer>>
       \/ /\ model' = "None"
          /\ tokenizer' = "None"
          /\ pc' = "loaded"
          /\ UNCHANGED mistral_tokenizer
    /\ UNCHANGED <<phase, backend, use_local, prompt, questions, num_questions, qi,
                   data, attempts, searched, judged, served, result, error>>
    /\ UNCHANGED <<env_vars, calls, mistral_model, model_loads, row_vars, batch_vars, pure_vars>>

\* _mistral_model = AutoModelForCausalLM.from_pretrained(...), or it raises
load_model ==
    /\ pc = "load_model"
    /\ \/ /\ mistral_model' = [mistral_model EXCEPT ![LoaderModule] = "model"]
          /\ model_loads' = Counted(model_loads)
          /\ model' = "model"
          /\ tokenizer' = mistral_tokenizer[LoaderModule]
       \/ /\ model' = "None"
          /\ tokenizer' = "None"
          /\ UNCHANGED <<mistral_model, model_loads>>
    /\ pc' = "loaded"
    /\ UNCHANGED <<phase, backend, use_local, prompt, questions, num_questions, qi,
                   data, attempts, searched, judged, served, result, error>>
    /\ UNCHANGED <<env_vars, calls, mistral_tokenizer, row_vars, batch_vars, pure_vars>>

\* a mutant of mistral_or_fallback: an unavailable model is an error
mistral_or_raise ==
    /\ pc = "loaded"
    /\ IF model = "None" \/ tokenizer = "None"
       THEN /\ error' = "ModelUnavailable"
            /\ pc' = "raised"
       ELSE /\ pc' = IF phase = "decompose" THEN "template" ELSE "search"
            /\ UNCHANGED error
    /\ UNCHANGED <<phase, backend, use_local, model, tokenizer, prompt, questions,
                   num_questions, qi, data, attempts, searched, judged, served, result>>
    /\ UNCHANGED <<env_vars, calls, cache_vars, row_vars, batch_vars, pure_vars>>

\* a mutant of mistral_or_fallback: the judge has searched before it looks at
\* what load_mistral_model returned
mistral_or_fallback_after_search ==
    /\ pc = "loaded"
    /\ IF model = "None" \/ tokenizer = "None"
       THEN /\ backend' = "openai"
            /\ pc' = IF phase = "decompose" THEN "openai" ELSE "search"
            /\ searched' = IF phase = "judge" THEN Append(searched, qi) ELSE searched
       ELSE /\ pc' = IF phase = "decompose" THEN "template" ELSE "search"
            /\ UNCHANGED <<backend, searched>>
    /\ UNCHANGED <<phase, use_local, model, tokenizer, prompt, questions,
                   num_questions, qi, data, attempts, judged, served,
                   result, error>>
    /\ UNCHANGED <<env_vars, calls, cache_vars, row_vars, batch_vars, pure_vars>>

\* model, tokenizer = load_mistral_model()
\* if model is None or tokenizer is None: return <the OpenAI function>(...)
mistral_or_fallback ==
    /\ pc = "loaded"
    /\ IF model = "None" \/ tokenizer = "None"
       THEN /\ backend' = "openai"
            /\ pc' = IF phase = "decompose" THEN "openai" ELSE "search"
       ELSE /\ pc' = IF phase = "decompose" THEN "template" ELSE "search"
            /\ UNCHANGED backend
    /\ UNCHANGED <<phase, use_local, model, tokenizer, prompt, questions,
                   num_questions, qi, data, attempts, searched, judged, served,
                   result, error>>
    /\ UNCHANGED <<env_vars, calls, cache_vars, row_vars, batch_vars, pure_vars>>

\* ------------------------------------------------ search_results.tavily_search

\* a mutant of tavily_search: a failed request raises out of the judge
tavily_search_raises ==
    /\ pc = "search"
    /\ searched' = Append(searched, qi)
    /\ \/ /\ data' = "evidence"
          /\ pc' = IF backend = "openai" THEN "openai" ELSE "template"
          /\ UNCHANGED error
       \/ /\ error' = "RetrievalFailure"
          /\ pc' = "raised"
          /\ UNCHANGED data
    /\ UNCHANGED <<phase, backend, use_local, model, tokenizer, prompt, questions,
                   num_questions, qi, attempts, judged, served, result>>
    /\ UNCHANGED <<env_vars, calls, cache_vars, row_vars, batch_vars, pure_vars>>

\* data = tavily_search(query=question): the response's JSON, or None when the
\* request fails (RequestException is caught)
tavily_search ==
    /\ pc = "search"
    /\ data' \in {"evidence", "None"}
    /\ searched' = Append(searched, qi)
    /\ pc' = IF backend = "openai" THEN "openai" ELSE "template"
    /\ UNCHANGED <<phase, backend, use_local, model, tokenizer, prompt, questions,
                   num_questions, qi, attempts, judged, served, result, error>>
    /\ UNCHANGED <<env_vars, calls, cache_vars, row_vars, batch_vars, pure_vars>>

\* ------------------------------------------------------ the OpenAI functions

\* the callee returns to check_statement: its locals are gone
Return ==
    /\ backend' = "none"
    /\ model' = "None"
    /\ tokenizer' = "None"

\* a mutant of decompose_statement_to_questions_openai: a failed request is
\* sent once more
decompose_statement_to_questions_openai_retry ==
    /\ pc = "openai"
    /\ phase = "decompose"
    /\ attempts' = attempts + 1
    /\ \/ /\ IF attempts = 0
             THEN pc' = "openai" /\ UNCHANGED error
             ELSE pc' = "raised" /\ error' = "GenerationFailure"
          /\ UNCHANGED <<questions, num_questions, served, backend, model, tokenizer>>
       \/ /\ \E text \in DecomposerTexts :
                /\ questions' = parse_questions(text)
                /\ num_questions' = Len(parse_questions(text))
          /\ served' = (Served("openai"))
          /\ pc' = "loop"
          /\ Return
          /\ UNCHANGED error
    /\ UNCHANGED <<phase, use_local, prompt, qi, data, searched, judged, result>>
    /\ UNCHANGED <<env_vars, calls, cache_vars, row_vars, batch_vars, pure_vars>>

\* break_statement.decompose_statement_to_questions_openai: one
\* client.chat.completions.create, which raises or answers with text
decompose_statement_to_questions_openai ==
    /\ pc = "openai"
    /\ phase = "decompose"
    /\ attempts' = attempts + 1
    /\ \/ /\ error' = "GenerationFailure"
          /\ pc' = "raised"
          /\ UNCHANGED <<questions, num_questions, served, backend, model, tokenizer>>
       \/ /\ \E text \in DecomposerTexts :
                /\ questions' = parse_questions(text)
                /\ num_questions' = Len(parse_questions(text))
          /\ served' = (Served("openai"))
          /\ pc' = "loop"
          /\ Return
          /\ UNCHANGED error
    /\ UNCHANGED <<phase, use_local, prompt, qi, data, searched, judged, result>>
    /\ UNCHANGED <<env_vars, calls, cache_vars, row_vars, batch_vars, pure_vars>>

\* search_results.yes_no_openai after the search: one
\* client.chat.completions.create, which raises or answers with text
yes_no_openai ==
    /\ pc = "openai"
    /\ phase = "judge"
    /\ attempts' = attempts + 1
    /\ \/ /\ error' = "GenerationFailure"
          /\ pc' = "raised"
          /\ UNCHANGED <<judged, served, backend, model, tokenizer, data>>
       \/ /\ \E content \in JudgeAnswers :
                judged' = Append(judged, [q |-> qi, j |-> normalize_answer(content)])
          /\ served' = (Served("openai"))
          /\ pc' = "judged"
          /\ Return
          /\ data' = "None"
          /\ UNCHANGED error
    /\ UNCHANGED <<phase, use_local, prompt, questions, num_questions, qi, searched,
                   result>>
    /\ UNCHANGED <<env_vars, calls, cache_vars, row_vars, batch_vars, pure_vars>>

\* ------------------------------------------------------ the Mistral functions

\* a mutant of apply_chat_template: the exception of the tokenizer's template
\* is not caught
apply_chat_template_raises ==
    /\ pc = "template"
    /\ \/ /\ prompt' = chat_prompt
          /\ pc' = "generate"
          /\ UNCHANGED error
       \/ /\ error' = "TemplateFailure"
          /\ pc' = "raised"
          /\ UNCHANGED prompt
    /\ UNCHANGED <<phase, backend, use_local, model, tokenizer, questions,
                   num_questions, qi, data, attempts, searched, judged, served,
                   result>>
    /\ UNCHANGED <<env_vars, calls, cache_vars, row_vars, batch_vars, pure_vars>>

\* prompt = tokenizer.apply_chat_template(...), or on an exception the
\* concatenation of the system and the user text
apply_chat_template ==
    /\ pc = "template"
    /\ prompt' \in {chat_prompt, concat_prompt}
    /\ pc' = "generate"
    /\ UNCHANGED <<phase, backend, use_local, model, tokenizer, questions,
                   num_questions, qi, data, attempts, searched, judged, served,
                   result, error>>
    /\ UNCHANGED <<env_vars, calls, cache_vars, row_vars, batch_vars, pure_vars>>

\* a mutant of decompose_statement_to_questions_mistral: a failure of
\* model.generate falls back to the OpenAI function
decompose_statement_to_questions_mistral_fallback ==
    /\ pc = "generate"
    /\ phase = "decompose"
    /\ \/ /\ backend' = "openai"
          /\ pc' = "openai"
          /\ UNCHANGED <<questions, num_questions, served, model, tokenizer, prompt,
                         error>>
       \/ /\ \E text \in DecomposerTexts :
                LET generated_text == prompt \o text
                    res == strip(after_prompt(generated_text, prompt), Whitespace)
                IN  /\ questions' = parse_questions(res)
                    /\ num_questions' = Len(parse_questions(res))
          /\ served' = (Served("mistral"))
          /\ pc' = "loop"
          /\ Return
          /\ prompt' = <<>>
          /\ UNCHANGED error
    /\ UNCHANGED <<phase, use_local, qi, data, attempts, searched, judged, result>>
    /\ UNCHANGED <<env_vars, calls, cache_vars, row_vars, batch_vars, pure_vars>>

\* break_statement.decompose_statement_to_questions_mistral from model.generate
\* on: generate raises, or the decoded text is the prompt and its continuation
decompose_statement_to_questions_mistral ==
    /\ pc = "generate"
    /\ phase = "decompose"
    /\ \/ /\ error' = "GenerationFailure"
          /\ pc' = "raised"
          /\ UNCHANGED <<questions, num_questions, served, backend, model, tokenizer,
                         prompt>>
       \/ /\ \E text \in DecomposerTexts :
                LET generated_text == prompt \o text
                    res == strip(after_prompt(generated_text, prompt), Whitespace)
                IN  /\ questions' = parse_questions(res)
                    /\ num_questions' = Len(parse_questions(res))
          /\ served' = (Served("mistral"))
          /\ pc' = "loop"
          /\ Return
          /\ prompt' = <<>>
          /\ UNCHANGED error
    /\ UNCHANGED <<phase, use_local, qi, data, attempts, searched, judged, result>>
    /\ UNCHANGED <<env_vars, calls, cache_vars, row_vars, batch_vars, pure_vars>>

\* search_results.yes_no_mistral from model.generate on
yes_no_mistral ==
    /\ pc = "generate"
    /\ phase = "judge"
    /\ \/ /\ error' = "GenerationFailure"
          /\ pc' = "raised"
          /\ UNCHANGED <<judged, served, backend, model, tokenizer, prompt, data>>
       \/ /\ \E content \in JudgeAnswers :
                LET generated_text == prompt \o content
                    answer == after_prompt(generated_text, prompt)
                IN  judged' = Append(judged, [q |-> qi, j |-> normalize_answer(answer)])
          /\ served' = (Served("mistral"))
          /\ pc' = "judged"
          /\ Return
          /\ prompt' = <<>>
          /\ data' = "None"
          /\ UNCHANGED error
    /\ UNCHANGED <<phase, use_local, questions, num_questions, qi, attempts,
                   searched, result>>
    /\ UNCHANGED <<env_vars, calls, cache_vars, row_vars, batch_vars, pure_vars>>

\* ------------------------------------------------------------ specification

Next ==
    \/ \E st \in Statements, ul \in BOOLEAN : check_statement(st, ul)
    \/ \E cell \in RowCells, has_col \in BOOLEAN : process_csv_row(cell, has_col)
    \/ process_csv_row_return
    \/ \E cells \in SeqsUpTo(Cells, MaxRows), has_col \in BOOLEAN :
          process_statements_from_csv(cells, has_col)
    \/ \E cells \in SeqsUpTo(Cells, MaxRows), has_col \in BOOLEAN :
          process_statements_from_csv_content(cells, has_col)
    \/ \E cells \in SeqsUpTo(Cells, MaxRows), has_col \in BOOLEAN :
          factcheck_upload(cells, has_col)
    \/ decompose_statement_to_questions
    \/ load_mistral_model
    \/ load_tokenizer
    \/ load_model
    \/ mistral_or_fallback
    \/ decompose_statement_to_questions_openai
    \/ decompose_statement_to_questions_mistral
    \/ for_question
    \/ yes_no
    \/ tavily_search
    \/ yes_no_openai
    \/ apply_chat_template
    \/ yes_no_mistral
    \/ if_no_return_false

Spec == Init /\ [][Next]_vars

\* --------------------------------------- the judge's normalization on its own

AnswerChars == {" ", "\n", "y", "Y", "n", "e"}
AnswerTexts == SeqsUpTo(AnswerChars, MaxAnswerLen)

InitNormalize ==
    /\ Fresh
    /\ collaborators = "real"
    /\ fn = "none"
    /\ arg \in AnswerTexts
    /\ out = "none"

\* yes_no_openai on a response whose message content is arg
normalize_openai ==
    /\ fn = "none"
    /\ fn' = "yes_no_openai"
    /\ out' = normalize_answer(arg)
    /\ UNCHANGED <<arg, pc, env_vars, calls, call_vars, cache_vars, row_vars, batch_vars>>

\* yes_no_mistral on a decoded text that is the prompt followed by arg
normalize_mistral ==
    /\ fn = "none"
    /\ fn' = "yes_no_mistral"
    /\ \E formatted_prompt \in {chat_prompt, concat_prompt} :
          LET generated_text == formatted_prompt \o arg
          IN  out' = normalize_answer(after_prompt(generated_text, formatted_prompt))
    /\ UNCHANGED <<arg, pc, env_vars, calls, call_vars, cache_vars, row_vars, batch_vars>>

NextNormalize == normalize_openai \/ normalize_mistral

SpecNormalize == InitNormalize /\ [][NextNormalize]_vars

\* ------------------------------- the pipeline next to another loading worker

\* another worker of the process inside load_mistral_model of module m, past
\* the cache test and the probes:
\* _mistral_tokenizer = AutoTokenizer.from_pretrained(...)
worker_load_tokenizer(m) ==
    /\ fs = "ok"
    /\ mistral_tokenizer[m] = "None"
    /\ mistral_tokenizer' = [mistral_tokenizer EXCEPT ![m] = "tokenizer"]
    /\ UNCHANGED <<pc, env_vars, calls, call_vars, mistral_model, model_loads, row_vars,
                   batch_vars, pure_vars>>

\* the other worker, after its tokenizer:
\* _mistral_model = AutoModelForCausalLM.from_pretrained(...)
worker_load_model(m) ==
    /\ fs = "ok"
    /\ mistral_tokenizer[m] # "None"
    /\ mistral_model[m] = "None"
    /\ mistral_model' = [mistral_model EXCEPT ![m] = "model"]
    /\ model_loads' = Counted(model_loads)
    /\ UNCHANGED <<pc, env_vars, calls, call_vars, mistral_tokenizer, row_vars,
                   batch_vars, pure_vars>>

\* check_statement in Local mode, while another worker may be loading
NextWorkers ==
    \/ \E st \in Statements : check_statement(st, TRUE)
    \/ \E m \in Modules : worker_load_tokenizer(m)
    \/ \E m \in Modules : worker_load_model(m)
    \/ decompose_statement_to_questions
    \/ load_mistral_model
    \/ load_tokenizer
    \/ load_model
    \/ mistral_or_fallback
    \/ decompose_statement_to_questions_openai
    \/ decompose_statement_to_questions_mistral
    \/ for_question
    \/ yes_no
    \/ tavily_search
    \/ yes_no_openai
    \/ apply_chat_template
    \/ yes_no_mistral
    \/ if_no_return_false

SpecWorkers == Init /\ [][NextWorkers]_vars

\* ------------------------------------- the pipeline over deterministic stubs

\* the texts a stubbed backend answers a decomposition with
StubTexts == {<<>>, <<"a", "\n", "-", " ", "a">>}

\* the stubs: what the loaders do, whether the chat template works, what the
\* search returns, and per backend what a decomposition and a judgment request
\* come back with (every question of the stubbed texts is the same question)
Stubs ==
    [load : {"ok", "tokenizer_raises", "model_raises"},
     template : BOOLEAN,
     search : {"evidence", "None"},
     decomposer : [{"openai", "mistral"} -> [fails : BOOLEAN, text : StubTexts]],
     judge : [{"openai", "mistral"} ->
                 [fails : BOOLEAN, content : {<<"Y", "e", "s">>, <<"N", "o">>}]]]

InitStubbed ==
    /\ Fresh
    /\ fs # "incomplete"
    /\ collaborators \in
          {c \in Stubs : \A b \in {"openai", "mistral"} :
              /\ c.decomposer[b].fails => c.decomposer[b].text = <<>>
              /\ c.judge[b].fails => c.judge[b].content = <<"N", "o">>}
    /\ fn = "none"
    /\ arg = <<>>
    /\ out = "none"

\* check_statement on a statement, and then check_statement again on the same
\* statement in the same mode
stubbed_check_statement ==
    \E ul \in BOOLEAN :
        /\ calls > 0 => (statement = S_water /\ ul = use_local)
        /\ check_statement(S_water, ul)

stubbed_load_tokenizer ==
    /\ load_tokenizer
    /\ (pc' = "load_model") <=> (collaborators.load # "tokenizer_raises")

stubbed_load_model ==
    /\ load_model
    /\ (model' = "model") <=> (collaborators.load = "ok")

stubbed_tavily_search ==
    /\ tavily_search
    /\ data' = collaborators.search

stubbed_apply_chat_template ==
    /\ apply_chat_template
    /\ prompt' = IF collaborators.template THEN chat_prompt ELSE concat_prompt

stubbed_decompose_openai ==
    /\ decompose_statement_to_questions_openai
    /\ LET r == collaborators.decomposer["openai"]
       IN  /\ (pc' = "raised") <=> r.fails
           /\ ~r.fails => questions' = parse_questions(r.text)

stubbed_decompose_mistral ==
    /\ decompose_statement_to_questions_mistral
    /\ LET r == collaborators.decomposer["mistral"]
       IN  /\ (pc' = "raised") <=> r.fails
           /\ ~r.fails => questions' = parse_questions(r.text)

stubbed_yes_no_openai ==
    /\ yes_no_openai
    /\ LET r == collaborators.judge["openai"]
       IN  /\ (pc' = "raised") <=> r.fails
           /\ ~r.fails =>
                  judged' = Append(judged, [q |-> qi, j |-> normalize_answer(r.content)])

stubbed_yes_no_mistral ==
    /\ yes_no_mistral
    /\ LET r == collaborators.judge["mistral"]
       IN  /\ (pc' = "raised") <=> r.fails
           /\ ~r.fails =>
                  judged' = Append(judged, [q |-> qi, j |-> normalize_answer(r.content)])

NextStubbed ==
    \/ stubbed_check_statement
    \/ decompose_statement_to_questions
    \/ load_mistral_model
    \/ stubbed_load_tokenizer
    \/ stubbed_load_model
    \/ mistral_or_fallback
    \/ stubbed_decompose_openai
    \/ stubbed_decompose_mistral
    \/ for_question
    \/ yes_no
    \/ stubbed_tavily_search
    \/ stubbed_yes_no_openai
    \/ stubbed_apply_chat_template
    \/ stubbed_yes_no_mistral
    \/ if_no_return_false

SpecStubbed == InitStubbed /\ [][NextStubbed]_vars

\* ------------------------------------------------ detect_subjectivity on its own

\* statements over a few characters ("all" is an alternative of a pattern,
\* "feel" an opinion word), and the statements of the CSV rows
StatementChars == {"a", "l", "L", "f", "e", " ", "."}
StatementTexts ==
    SeqsUpTo(StatementChars, MaxStatementLen)
        \cup {S_i_think, S_they_think, S_water, S_padded, S_blank}

InitSubjectivity ==
    /\ Fresh
    /\ collaborators = "real"
    /\ fn = "none"
    /\ arg \in StatementTexts
    /\ out = "none"

\* detect_subjectivity(arg)
call_detect_subjectivity ==
    /\ fn = "none"
    /\ fn' = "detect_subjectivity"
    /\ out' = IF detect_subjectivity(arg) THEN "True" ELSE "False"
    /\ UNCHANGED <<arg, pc, env_vars, calls, call_vars, cache_vars, row_vars, batch_vars>>

NextSubjectivity == call_detect_subjectivity

SpecSubjectivity == InitSubjectivity /\ [][NextSubjectivity]_vars

\* ------------------------------------------- the decomposer's parser on its own

\* backend texts over a question character, the dash, the space, the tab and
\* the line break
TextChars == {"a", "-", " ", "\t", "\n"}
BackendTexts == SeqsUpTo(TextChars, MaxTextLen)

InitParse ==
    /\ Fresh
    /\ collaborators = "real"
    /\ fn = "none"
    /\ arg \in BackendTexts
    /\ out = "none"

\* decompose_statement_to_questions_openai on a response whose message
\* content is arg
parse_openai ==
    /\ fn = "none"
    /\ fn' = "decompose_statement_to_questions_openai"
    /\ out' = [questions |-> parse_questions(arg), count |-> Len(parse_questions(arg))]
    /\ UNCHANGED <<arg, pc, env_vars, calls, call_vars, cache_vars, row_vars, batch_vars>>

\* decompose_statement_to_questions_mistral on a decoded text that is the
\* prompt followed by arg
parse_mistral ==
    /\ fn = "none"
    /\ fn' = "decompose_statement_to_questions_mistral"
    /\ \E formatted_prompt \in {chat_prompt, concat_prompt} :
          LET generated_text == formatted_prompt \o arg
              res == strip(after_prompt(generated_text, formatted_prompt), Whitespace)
          IN  out' = [questions |-> parse_questions(res),
                      count |-> Len(parse_questions(res))]
    /\ UNCHANGED <<arg, pc, env_vars, calls, call_vars, cache_vars, row_vars, batch_vars>>

NextParse == parse_openai \/ parse_mistral

SpecParse == InitParse /\ [][NextParse]_vars

\* ------------------------------------------------------------------ claims

\* the questions of the running call that were judged, with judgment j
Judged(j) == {judged[k].q : k \in {n \in 1..Len(judged) : judged[n].j = j}}

\* C1: when check_statement returns, it returns False if and only if some
\* question was judged "No", it returns True only if every question of the
\* decomposition was judged "Yes", and on an empty decomposition it returns True.
C1_Verdict ==
    pc = "returned" =>
        /\ result \in {"True", "False"}
        /\ result = "False" <=> Judged("No") # {}
        /\ result = "True" => Judged("Yes") = 1..Len(questions)
        /\ questions = <<>> => result = "True"

C1_Witness ==
    /\ pc = "returned"
    /\ result = "False"
    /\ Len(questions) = 3
    /\ Judged("Yes") = {1}
    /\ Judged("No") = {2}

C1_WitnessEmpty ==
    /\ pc = "returned"
    /\ questions = <<>>
    /\ result = "True"

\* C2: once a question has been judged "No", no later question of the call is
\* searched for, handed to the judge or judged.
C2_ShortCircuit ==
    \A i \in Judged("No") :
        /\ qi <= i
        /\ \A k \in 1..Len(searched) : searched[k] <= i
        /\ \A k \in 1..Len(judged) : judged[k].q <= i
        /\ served.q <= i

C2_Witness ==
    /\ pc = "returned"
    /\ Len(questions) = 3
    /\ judged = <<[q |-> 1, j |-> "Yes"], [q |-> 2, j |-> "No"]>>
    /\ searched = <<1, 2>>

\* the statements of the rows that a batch runner went through, in row order
RECURSIVE StatementsOf(_, _)
StatementsOf(cells, has_col) ==
    IF cells = <<>> THEN <<>>
    ELSE LET st == extract_statement_from_row(Head(cells), has_col)
         IN  (IF st = None THEN <<>> ELSE <<st>>) \o StatementsOf(Tail(cells), has_col)

\* the rows the batch runner that ran went through: the content runner and
\* the upload endpoint stop at a header without the statement column
RowsProcessed == IF runner \in {"content", "upload"} /\ ~has_column THEN <<>> ELSE rows

\* the result entries for statement st
EntriesFor(st) == {k \in 1..Len(results) : results[k].statement = st}

\* nothing of the pipeline has run: no check_statement call, no decomposition,
\* no search, no judgment
PipelineUntouched ==
    /\ calls = 0
    /\ statement = None
    /\ questions = <<>>
    /\ searched = <<>>
    /\ judged = <<>>
    /\ served = NotServed

\* C3: a batch runner reports SKIPPED_SUBJECTIVE for every statement that
\* detect_subjectivity classifies as subjective, and runs neither the
\* decomposer nor the search nor the judge for it.
C3_SubjectiveSkipped ==
    runner # "none" =>
        LET sts == StatementsOf(RowsProcessed, has_column)
        IN  /\ \A i \in 1..Len(sts) :
                   detect_subjectivity(sts[i]) =>
                       /\ EntriesFor(sts[i]) # {}
                       /\ \A k \in EntriesFor(sts[i]) :
                              results[k].verdict = "SKIPPED_SUBJECTIVE"
            /\ PipelineUntouched

C3_Witness ==
    /\ runner = "csv"
    /\ has_column
    /\ rows = <<S_water, S_they_think>>
    /\ results = <<[statement |-> S_water, verdict |-> "YES"],
                   [statement |-> S_they_think, verdict |-> "SKIPPED_SUBJECTIVE"]>>

\* C4: for every non-empty, non-subjective statement a batch runner calls
\* check_statement and reports "YES" or "NO" after its return value: there are
\* as many check_statement calls as entries with one of these two verdicts.
C4_BatchCallsCheckStatement ==
    runner # "none" =>
        calls = Cardinality({k \in 1..Len(results) : results[k].verdict \in {"YES", "NO"}})

\* C5 as claimed: a check_statement call on a non-empty, non-subjective
\* statement that has ended has ended in one of the verdicts true and false.
C5_AlwaysAVerdict ==
    (pc \in {"returned", "raised"} /\ statement # None /\ ~detect_subjectivity(statement))
        => result \in {"True", "False"}

\* C5, amended: a check_statement call that returns has exactly one of the
\* verdicts true and false, and a call left by a generation failure has none;
\* a batch runner gives every non-empty statement exactly one verdict among
\* SKIPPED_SUBJECTIVE, YES and NO, the first if and only if the statement is
\* subjective.
C5_OneOutcome ==
    /\ pc = "returned" => result \in {"True", "False"} /\ error = "none"
    /\ pc = "raised" => result = "none" /\ error = "GenerationFailure"
    /\ runner # "none" =>
          LET sts == StatementsOf(RowsProcessed, has_column)
          IN  /\ Len(results) = Len(sts)
              /\ \A k \in 1..Len(results) :
                    /\ results[k].statement = sts[k]
                    /\ results[k].verdict \in {"SKIPPED_SUBJECTIVE", "YES", "NO"}
                    /\ results[k].verdict = "SKIPPED_SUBJECTIVE"
                          <=> detect_subjectivity(sts[k])

C5_Witness ==
    /\ pc = "raised"
    /\ statement = S_water
    /\ phase = "judge"
    /\ Judged("Yes") = {1}
    /\ result = "none"

\* C6: in Local mode with the model unavailable at load time (directory or
\* file missing, or an exception while loading) the generation is served by
\* OpenAI, no ModelUnavailable error leaves check_statement, local generation
\* never runs without both the model and the tokenizer, and what comes back has
\* the Remote shape: the count is the length of the question list, judgments
\* are "Yes" or "No", the verdict is a boolean.
C6_Fallback ==
    /\ error # "ModelUnavailable"
    /\ pc \in {"template", "generate"} => model # "None" /\ tokenizer # "None"
    /\ (pc \in {"search", "openai"} /\ use_local /\ (model = "None" \/ tokenizer = "None"))
          => backend = "openai"
    /\ (served.phase # "none" /\ use_local /\ ~served.loaded) =>
          /\ served.by = "openai"
          /\ num_questions = Len(questions)
          /\ \A k \in 1..Len(judged) : judged[k].j \in {"Yes", "No"}
          /\ pc = "returned" => result \in {"True", "False"}

\* the model's load raised in both modules, after the tokenizer's had
\* succeeded, and the whole call was served by OpenAI
C6_Witness ==
    /\ pc = "returned"
    /\ use_local
    /\ calls = 1
    /\ fs = "ok"
    /\ \A m \in Modules : mistral_tokenizer[m] = "tokenizer" /\ mistral_model[m] = "None"
    /\ served.phase = "judge"
    /\ served.by = "openai"
    /\ result = "True"

\* a response begins with the letter y once trimmed and lower-cased
BeginsWithY(text) ==
    \E i \in 1..Len(text) :
        /\ text[i] \in {"y", "Y"}
        /\ \A k \in 1..(i - 1) : text[k] \in Whitespace

\* C7: on the OpenAI and on the Mistral path, the judgment is "Yes" if and only
\* if the backend's response begins with the letter y after trimming
\* whitespace and lower-casing; otherwise, the empty response included, it is
\* "No".
C7_Normalization ==
    fn # "none" =>
        /\ out \in {"Yes", "No"}
        /\ out = "Yes" <=> BeginsWithY(arg)

C7_Witness ==
    /\ fn = "yes_no_mistral"
    /\ arg = <<" ", "Y", "e">>
    /\ out = "Yes"

\* C8: a failed search never leaves the judge as an exception; the judgment
\* request is made with None in place of the search result and the judge
\* returns "Yes" or "No".
C8_RetrievalFailure ==
    /\ error # "RetrievalFailure"
    /\ pc = "raised" => error = "GenerationFailure"
    /\ (served.phase = "judge" /\ served.data = "None") =>
          /\ Len(judged) >= 1
          /\ judged[Len(judged)].q = served.q
          /\ judged[Len(judged)].j \in {"Yes", "No"}
    /\ (phase = "judge" /\ pc \in {"openai", "template", "generate"}) =>
          /\ Len(searched) >= 1
          /\ searched[Len(searched)] = qi
          /\ data \in {"evidence", "None"}

C8_Witness ==
    /\ pc = "returned"
    /\ served.phase = "judge"
    /\ served.data = "None"
    /\ served.q = 2
    /\ result = "True"

\* C9: the local model is loaded at most once in a process: over all
\* decomposition and judgment calls, AutoModelForCausalLM.from_pretrained loads
\* the model at most once.
C9_LoadedOnce == model_loads <= 1

\* C10: a failed OpenAI request is not sent again: the callee has made exactly
\* one request when the failure leaves check_statement, which then has no
\* verdict; no callee makes more than one request.
C10_NoRetry ==
    /\ attempts <= 1
    /\ (pc = "raised" /\ backend = "openai") =>
          /\ attempts = 1
          /\ error = "GenerationFailure"
          /\ result = "none"

C10_Witness ==
    /\ pc = "raised"
    /\ backend = "openai"
    /\ phase = "judge"
    /\ qi = 2
    /\ attempts = 1

\* C11: in Local mode a failure of generation after a successful load leaves
\* check_statement as the exception, with no verdict and without a request to
\* OpenAI by that callee; the OpenAI function serves a Local-mode call only
\* when the load came back without the model or without the tokenizer.
C11_DecodeFailureSurfaced ==
    /\ (pc = "raised" /\ backend = "mistral") =>
          /\ model # "None" /\ tokenizer # "None"
          /\ error = "GenerationFailure"
          /\ result = "none"
          /\ attempts = 0
    /\ (use_local /\ backend = "openai") => (model = "None" \/ tokenizer = "None")
    /\ (use_local /\ served.by = "openai") => ~served.loaded

C11_Witness ==
    /\ pc = "raised"
    /\ backend = "mistral"
    /\ phase = "judge"
    /\ model = "model"
    /\ served.phase = "decompose"
    /\ served.by = "mistral"
    /\ attempts = 0

\* a cell without a statement: missing, empty or whitespace only
Blank(cell) == cell = None \/ \A i \in 1..Len(cell) : cell[i] \in Whitespace

\* C12: an empty or whitespace-only statement is rejected before the
\* subjectivity test: a batch runner has no result entry for it, does not hand
\* it to detect_subjectivity and runs nothing of the pipeline, so that the
\* entries and the detect_subjectivity calls are as many as the rows with a
\* statement; process_csv_row returns None for it without calling
\* check_statement.
C12_EmptyRejected ==
    /\ runner # "none" =>
          LET with_statement ==
                  IF has_column THEN {k \in 1..Len(rows) : ~Blank(rows[k])} ELSE {}
          IN  /\ \A k \in 1..Len(results) : ~Blank(results[k].statement)
              /\ \A k \in 1..Len(gated) : ~Blank(gated[k])
              /\ Len(results) = Cardinality(with_statement)
              /\ Len(gated) = Cardinality(with_statement)
              /\ PipelineUntouched
    /\ caller = "process_csv_row" =>
          /\ statement # None => ~Blank(statement)
          /\ statement = None => pc = "row_done" /\ row_result = None

C12_Witness ==
    /\ runner = "content"
    /\ has_column
    /\ rows = <<S_blank, S_water>>
    /\ results = <<[statement |-> S_water, verdict |-> "YES"]>>
    /\ gated = <<S_water>>

\* some stretch of the statement is, lower-cased, an alternative of a
\* subjective pattern, with no word character next to it on either side
MatchesPattern(text) ==
    \E i \in 1..Len(text), j \in 1..Len(text) :
        /\ i <= j
        /\ lower(SubSeq(text, i, j)) \in subjective_patterns
        /\ i > 1 => text[i - 1] \notin word_chars
        /\ j < Len(text) => text[j + 1] \notin word_chars

\* some whitespace-delimited token of the statement is, lower-cased, an
\* opinion word
HasOpinionToken(text) ==
    \E i \in 1..Len(text), j \in 1..Len(text) :
        /\ i <= j
        /\ \A k \in i..j : text[k] \notin Whitespace
        /\ i > 1 => text[i - 1] \in Whitespace
        /\ j < Len(text) => text[j + 1] \in Whitespace
        /\ lower(SubSeq(text, i, j)) \in opinion_words

\* C13: detect_subjectivity returns True if and only if the statement matches
\* one of the subjective patterns, in any case and anywhere in the statement,
\* or one of its whitespace-delimited lower-cased tokens is an opinion word;
\* for an empty or whitespace-only statement it returns False.
C13_DetectSubjectivity ==
    fn = "detect_subjectivity" =>
        /\ out \in {"True", "False"}
        /\ out = "True" <=> (MatchesPattern(arg) \/ HasOpinionToken(arg))
        /\ Blank(arg) => out = "False"

\* an opinion word as a token, and no pattern matched
C13_Witness ==
    /\ fn = "detect_subjectivity"
    /\ arg = <<"f", "e", "e", "l">>
    /\ ~MatchesPattern(arg)
    /\ out = "True"

\* a pattern's alternative inside a longer word is no match
C13_WitnessInsideWord ==
    /\ fn = "detect_subjectivity"
    /\ arg = <<"f", "a", "l", "l">>
    /\ out = "False"

\* what the statement, the mode and the stubs determine: the backend that
\* serves the call, the decomposition it gives, and the judgment that every
\* question gets
StubbedOutcome ==
    LET b == IF use_local /\ fs = "ok" /\ collaborators.load = "ok"
             THEN "mistral" ELSE "openai"
        d == collaborators.decomposer[b]
        j == collaborators.judge[b]
    IN  IF d.fails THEN "raised"
        ELSE IF \A i \in 1..Len(d.text) : d.text[i] \in Whitespace THEN "True"
        ELSE IF j.fails THEN "raised"
        ELSE IF BeginsWithY(j.content) THEN "True" ELSE "False"

\* C14: over deterministic collaborators the outcome of every check_statement
\* call, the first one and the one after it on the same statement alike, is
\* the one that the statement, the mode and the collaborators determine,
\* whatever the earlier call left in the caches: two successive calls give
\* the same verdict.
C14_Idempotent ==
    /\ pc = "returned" => result = StubbedOutcome
    /\ pc = "raised" => StubbedOutcome = "raised"

\* the second call in Local mode, served from the cache the first call filled
C14_Witness ==
    /\ calls = 2
    /\ pc = "returned"
    /\ use_local
    /\ model_loads = 2
    /\ served.by = "mistral"
    /\ served.loaded
    /\ result = "False"

\* C15: within a check_statement call the judge is called on the questions
\* in the order of the decomposition, one call per question with none left out
\* and none repeated, every judgment before the last one is "Yes", and when
\* check_statement returns the number of judge calls is the index of the first
\* question judged "No", or the number of questions when there is none.
C15_JudgeOrder ==
    /\ \A k \in 1..Len(judged) : judged[k].q = k
    /\ \A k \in 1..(Len(judged) - 1) : judged[k].j = "Yes"
    /\ qi \in {Len(judged), Len(judged) + 1}
    /\ qi <= Len(questions)
    /\ pc = "returned" =>
          /\ qi = Len(judged)
          /\ IF Judged("No") # {}
             THEN \A i \in Judged("No") : qi = i
             ELSE qi = Len(questions)

C15_Witness ==
    /\ pc = "returned"
    /\ Len(questions) = 3
    /\ qi = 3
    /\ judged = <<[q |-> 1, j |-> "Yes"], [q |-> 2, j |-> "Yes"], [q |-> 3, j |-> "Yes"]>>
    /\ result = "True"

C15_WitnessFirstNo ==
    /\ pc = "returned"
    /\ Len(questions) = 3
    /\ qi = 1
    /\ judged = <<[q |-> 1, j |-> "No"]>>

\* C16: the outcome of the load is decided once: after a judgment of the
\* running Local-mode call was served without the local model, because the
\* load in search_results had ended as unavailable, the next judgment does not
\* get past the cache test of that module to the filesystem probes and to
\* from_pretrained again.
C16_UnavailableCached ==
    (use_local /\ served.phase = "judge" /\ ~served.loaded)
        => pc \notin {"load_tokenizer", "load_model"}

\* a line without its leading dash markup and its surrounding whitespace
Unmarked(line) ==
    strip(lstrip(strip(line, Whitespace), {"-", " "}), Whitespace)

\* the lines of a text that are not blank, in order
NonBlankLines(text) ==
    LET lines == split(text, "\n")
        F[i \in 0..Len(lines)] ==
            IF i = 0 THEN <<>>
            ELSE IF Blank(lines[i]) THEN F[i - 1] ELSE Append(F[i - 1], lines[i])
    IN  F[Len(lines)]

\* C17: the decomposer returns the non-blank lines of the backend text in
\* order, each without its leading dash markup and its surrounding whitespace;
\* the count is the length of the sequence; and when no line has anything left
\* but markup and whitespace the sequence is empty.
C17_ParsedAsClaimed ==
    fn \in {"decompose_statement_to_questions_openai",
            "decompose_statement_to_questions_mistral"} =>
        LET kept == NonBlankLines(arg)
        IN  /\ out.questions = [i \in 1..Len(kept) |-> Unmarked(kept[i])]
            /\ out.count = Len(out.questions)
            /\ (\A i \in 1..Len(kept) : Unmarked(kept[i]) = <<>>) => out.questions = <<>>

\* C18: when check_statement raises for the statement of a row,
\* process_csv_row prints the exception and returns None, which is not a row
\* with is_factual False; a row is reported as not factual only when
\* check_statement returned False for it, after a question judged "No".
C18_FailureReported ==
    (caller = "process_csv_row" /\ pc = "row_done" /\ statement # None) =>
        /\ error # "none" =>
              /\ printed = error
              /\ row_result = None
        /\ error = "none" =>
              /\ printed = "none"
              /\ row_result = <<[original_statement |-> statement, is_factual |-> result]>>
              /\ result \in {"True", "False"}
              /\ result = "False" => Judged("No") # {}

C18_Witness ==
    /\ caller = "process_csv_row"
    /\ pc = "row_done"
    /\ statement = strip(S_padded, Whitespace)
    /\ error = "GenerationFailure"
    /\ printed = "GenerationFailure"
    /\ row_result = None
    /\ phase = "judge"

\* C19: a failure of the tokenizer's chat template never leaves the callee as
\* an exception: after the templating step, in the decomposer and in the judge,
\* the prompt is the templated one or the system text, a blank line and the
\* user text, generation is the next step, and a generation by the local model
\* was given one of these two prompts.
C19_TemplateFallback ==
    /\ error # "TemplateFailure"
    /\ pc = "generate" =>
          /\ prompt \in {chat_prompt, system_prompt \o <<"\n", "\n">> \o user_prompt}
          /\ backend = "mistral"
    /\ pc = "raised" => error = "GenerationFailure"
    /\ served.by = "mistral" =>
          served.prompt \in {chat_prompt, system_prompt \o <<"\n", "\n">> \o user_prompt}
    /\ served.by = "openai" => served.prompt = <<>>

\* the template failed in the decomposer and in the judge, and the call ended
\* with a verdict
C19_Witness ==
    /\ pc = "returned"
    /\ served.phase = "judge"
    /\ served.by = "mistral"
    /\ served.prompt = system_prompt \o <<"\n", "\n">> \o user_prompt
    /\ result = "True"

\* the searches of the running call for question i
SearchesFor(i) == {n \in 1..Len(searched) : searched[n] = i}

\* C20: every judge call that has returned has made exactly one
\* tavily_search request for its question, in Remote mode, in Local mode with
\* the model loaded and in Local mode after the fallback; a judge call that is
\* running has made at most one, and none is made for a question that is not
\* handed to the judge.
C20_OneSearchPerJudgment ==
    /\ \A k \in 1..Len(judged) : Cardinality(SearchesFor(judged[k].q)) = 1
    /\ \A i \in 1..Len(questions) : Cardinality(SearchesFor(i)) <= 1
    /\ \A n \in 1..Len(searched) : searched[n] \in 1..qi

\* three judgments in Local mode served by OpenAI after the fallback
C20_Witness ==
    /\ pc = "returned"
    /\ use_local
    /\ served.phase = "judge"
    /\ served.by = "openai"
    /\ ~served.loaded
    /\ Len(judged) = 3
    /\ searched = <<1, 2, 3>>

\* three judgments by the loaded local model
C20_WitnessLocal ==
    /\ pc = "returned"
    /\ served.phase = "judge"
    /\ served.by = "mistral"
    /\ Len(judged) = 3
    /\ searched = <<1, 2, 3>>

\* C21: what load_mistral_model hands to its caller is the model together with
\* the tokenizer, or (None, None): also when the tokenizer was loaded and the
\* model's load raised, also while another worker has stored its tokenizer and
\* not yet its model, and also in a later call that finds the tokenizer of a
\* failed load in the cache; local generation runs with both only.
C21_WholeHandle ==
    /\ (model = "None") <=> (tokenizer = "None")
    /\ pc = "loaded" =>
          \/ model = "model" /\ tokenizer = "tokenizer"
          \/ model = "None" /\ tokenizer = "None"
    /\ pc \in {"template", "generate"} => (model = "model" /\ tokenizer = "tokenizer")
    /\ served.by = "mistral" => served.loaded

\* the load for question 1 left the tokenizer without the model in the cache
\* of search_results, and the load for question 2 has come back with
\* (None, None)
C21_Witness ==
    /\ pc = "loaded"
    /\ phase = "judge"
    /\ qi = 2
    /\ served.phase = "judge"
    /\ ~served.loaded
    /\ mistral_tokenizer["search_results"] = "tokenizer"
    /\ mistral_model["search_results"] = "None"
    /\ model = "None"
    /\ tokenizer = "None"

\* the caller and the other worker were inside load_mistral_model of
\* break_statement together: the model was loaded twice there, and the caller
\* has come back with the model and the tokenizer
C21_WitnessWorker ==
    /\ pc = "loaded"
    /\ phase = "decompose"
    /\ calls = 1
    /\ model_loads = 2
    /\ mistral_model["search_results"] = "None"
    /\ model = "model"
    /\ tokenizer = "tokenizer"

\* the cells of the rows that have a statement, in row order
CellsWithStatement ==
    LET F[i \in 0..Len(rows)] ==
            IF i = 0 THEN <<>>
            ELSE IF Blank(rows[i]) THEN F[i - 1] ELSE Append(F[i - 1], rows[i])
    IN  IF has_column THEN F[Len(rows)] ELSE <<>>

\* C22: the result list of a batch runner has one entry for each row with a
\* non-empty statement, in row order, with the statement stripped of its
\* surrounding whitespace and a verdict among SKIPPED_SUBJECTIVE, YES and NO;
\* a row with a missing or empty statement has no entry; with a header
\* without the statement column the list is empty, nothing is handed to
\* detect_subjectivity, and the upload endpoint answers with an error.
C22_ResultList ==
    runner # "none" =>
        LET kept == CellsWithStatement
        IN  /\ Len(results) = Len(kept)
            /\ \A n \in 1..Len(results) :
                   /\ results[n].statement = strip(kept[n], Whitespace)
                   /\ results[n].verdict \in {"SKIPPED_SUBJECTIVE", "YES", "NO"}
            /\ ~has_column => (results = <<>> /\ gated = <<>>)
            /\ runner = "upload" => response = (IF has_column THEN "results" ELSE "error")
            /\ runner # "upload" => response = "none"

C22_Witness ==
    /\ runner = "upload"
    /\ has_column
    /\ rows = <<S_padded, S_i_think>>
    /\ response = "results"
    /\ results = <<[statement |-> strip(S_padded, Whitespace), verdict |-> "YES"],
                   [statement |-> S_i_think, verdict |-> "SKIPPED_SUBJECTIVE"]>>

C22_WitnessNoColumn ==
    /\ runner = "upload"
    /\ ~has_column
    /\ rows = <<S_water, S_padded>>
    /\ response = "error"
    /\ results = <<>>

C22_WitnessMissingCell ==
    /\ runner = "csv"
    /\ has_column
    /\ rows = <<None, S_padded>>
    /\ results = <<[statement |-> strip(S_padded, Whitespace), verdict |-> "YES"]>>

====
